---- MODULE Spec2Model ----
(***************************************************************************)
(* A state-machine model of the SUHS-MRV synthetic dataset generator       *)
(* (src/src/generator.py, src/src/physics.py).                             *)
(*                                                                         *)
(* Units.  The source computes in floating point; the model computes in    *)
(* integers:                                                               *)
(*   pressure      0.1 MPa  (so 10 MPa is 100)                             *)
(*   mass          kg                                                      *)
(*   volume        m3                                                      *)
(*   temperature   degrees Celsius (kelvin offset 273)                     *)
(*   fractions     percent (0.1 is 10, 1.0 is 100)                         *)
(*   Z             hundredths (1.04 is 104)                                *)
(* A product with a fraction is floored by integer division.               *)
(*                                                                         *)
(* Random draws.  Every draw of the shared numpy generator is a choice     *)
(* from a small set that depends on the configured distribution exactly as *)
(* numpy's does: a zero spread returns the location, a positive spread     *)
(* returns one of a few representative values.  Each draw is appended, in  *)
(* program order, to the variable stream.                                  *)
(***************************************************************************)
EXTENDS Integers, Sequences, FiniteSets, TLC

(* ---------------------------------------------------------------------- *)
(* Bounds of the model                                                     *)
(* ---------------------------------------------------------------------- *)

\* Largest global.n_facilities explored.
MaxFacilities == 2

\* Largest global.simulation.n_years explored.
MaxYears == 2

\* Weeks per simulated year.  generate_time_index uses 52 (generator.py:213);
\* the model runs a shortened year, and a calendar year of the same length.
WeeksPerYear == 3

\* Width of the significand of the scaled-down floating-point format in
\* which one week's inventory arithmetic is replayed; Python floats have 53.
MantissaBits == 6

(* ---------------------------------------------------------------------- *)
(* Program constants                                                       *)
(* ---------------------------------------------------------------------- *)

\* np.nan, the "undefined" marker of cycle_efficiency and avg_pressure_mpa.
NaN == -999999

\* static_leak_per_week = static_leak_per_year / 52.0
LeakWeeksPerYear == 52

\* last_cycle_fraction = 0.1, in percent.
InitialCycleFraction == 10

\* working_gas_kg = working_capacity_kg * 0.5, in percent.
InitialFillPct == 50

\* pressure_pa = 1.0e7, the seed of the fixed-point iteration, in 0.1 MPa.
SeedPressure == 100

\* for _ in range(5)
FixedPointIterations == 5

\* temperature_k = temperature_c + 273.15
KelvinOffset == 273

(* ---------------------------------------------------------------------- *)
(* The call in progress in physics.py                                      *)
(* ---------------------------------------------------------------------- *)

\* The function of the equation of state that was called last, its arguments,
\* its position in the fixed-point loop and its result.
VARIABLE eos

(* ---------------------------------------------------------------------- *)
(* Arithmetic helpers                                                      *)
(* ---------------------------------------------------------------------- *)

Max(a, b) == IF a >= b THEN a ELSE b

Min(a, b) == IF a <= b THEN a ELSE b

Abs(a) == IF a < 0 THEN -a ELSE a

\* x * pct / 100 on non-negative or negative x, rounded toward minus infinity.
PctOf(x, pct) == (x * pct) \div 100

Range(s) == {s[i] : i \in DOMAIN s}

RECURSIVE SeqSum(_)
SeqSum(s) == IF s = <<>> THEN 0 ELSE Head(s) + SeqSum(Tail(s))

RECURSIVE Flatten(_)
Flatten(ss) == IF ss = <<>> THEN <<>> ELSE Head(ss) \o Flatten(Tail(ss))

(* ---------------------------------------------------------------------- *)
(* physics.py: equation of state                                           *)
(* ---------------------------------------------------------------------- *)

\* ThermoConfig: R in J/(mol K) rounded to an integer, molar mass in g/mol and
\* the piecewise-constant compressibility table (pressures in 0.1 MPa).
DefaultThermo ==
    [ gas_constant_R_J_per_molK |-> 8,
      molar_mass_H2_g_per_mol |-> 2,
      compressibility_segments |->
        << [pressure_min_mpa |-> 0,   pressure_max_mpa |-> 100, Z |-> 100],
           [pressure_min_mpa |-> 100, pressure_max_mpa |-> 200, Z |-> 104],
           [pressure_min_mpa |-> 200, pressure_max_mpa |-> 400, Z |-> 110] >> ]

RECURSIVE FirstSegmentZ(_, _, _)
FirstSegmentZ(pressure_mpa, segs, k) ==
    IF k > Len(segs)
    THEN segs[Len(segs)].Z
    ELSE IF segs[k].pressure_min_mpa <= pressure_mpa
            /\ pressure_mpa < segs[k].pressure_max_mpa
         THEN segs[k].Z
         ELSE FirstSegmentZ(pressure_mpa, segs, k + 1)

\* A lookup that remembers: after a call it returns the Z of that call.
get_compressibility_z_memo(pressure_mpa, thermo) ==
    IF eos.fn = "get_compressibility_z"
    THEN eos.result
    ELSE FirstSegmentZ(pressure_mpa, thermo.compressibility_segments, 1)

get_compressibility_z(pressure_mpa, thermo) ==
    FirstSegmentZ(pressure_mpa, thermo.compressibility_segments, 1)

\* base + gradient * depth_km + noise; the noise is drawn by the caller.
compute_temperature_c(depth_m, base_temperature_c, gradient_c_per_km, noise) ==
    base_temperature_c + (gradient_c_per_km * depth_m) \div 1000 + noise

\* mass = n M with n = P V / (Z R T).  With P in 0.1 MPa, M in g/mol and Z in
\* hundredths the factor 1e5 * 1e-3 * 100 is 10000.
mass_from_pvt(pressure_mpa, temperature_c, volume_m3, thermo) ==
    IF volume_m3 <= 0
    THEN 0
    ELSE LET temperature_k == temperature_c + KelvinOffset
             Z == get_compressibility_z(pressure_mpa, thermo)
             R == thermo.gas_constant_R_J_per_molK
             M == thermo.molar_mass_H2_g_per_mol
         IN  Max((pressure_mpa * volume_m3 * M * 10000) \div (Z * R * temperature_k), 0)

\* One pass of the loop body (physics.py:255-257): Z at the current estimate,
\* then pressure = Z n R T / V.
fixed_point_step(pressure_mpa, mass_kg, temperature_k, rec) ==
    LET Z == get_compressibility_z(pressure_mpa, rec.thermo)
        R == rec.thermo.gas_constant_R_J_per_molK
        M == rec.thermo.molar_mass_H2_g_per_mol
    IN  (Z * mass_kg * R * temperature_k) \div (M * rec.volume_m3 * 10000)

RECURSIVE FixedPoint(_, _, _, _, _)
FixedPoint(k, pressure_mpa, mass_kg, temperature_k, rec) ==
    IF k = 0
    THEN pressure_mpa
    ELSE FixedPoint(k - 1,
                    fixed_point_step(pressure_mpa, mass_kg, temperature_k, rec),
                    mass_kg, temperature_k, rec)

\* Only a non-positive volume returns early.
degenerate_volume_only(mass_kg, volume_m3) == volume_m3 <= 0

\* if volume_m3 <= 0 or mass_kg <= 0: return 0.0
degenerate_inputs(mass_kg, volume_m3) == volume_m3 <= 0 \/ mass_kg <= 0

pressure_from_mass(mass_kg, temperature_c, volume_m3, thermo) ==
    IF degenerate_inputs(mass_kg, volume_m3)
    THEN 0
    ELSE Max(FixedPoint(FixedPointIterations, SeedPressure, mass_kg,
                        temperature_c + KelvinOffset,
                        [thermo |-> thermo, volume_m3 |-> volume_m3]), 0)

(* ---------------------------------------------------------------------- *)
(* physics.py: losses, mass balance, validation helpers                    *)
(* ---------------------------------------------------------------------- *)

compute_cycle_losses_kg(working_gas, loss_fraction) ==
    IF working_gas <= 0 \/ loss_fraction <= 0
    THEN 0
    ELSE Max(PctOf(working_gas, loss_fraction), 0)

\* |in - out - losses - dStorage| / max(|in|, eps), in thousandths; eps (1e-9)
\* is below the model's mass unit and is taken as one unit.
mass_balance_residual_fraction(injected_kg, withdrawn_kg, losses_kg, delta_storage_kg) ==
    (Abs(injected_kg - withdrawn_kg - losses_kg - delta_storage_kg) * 1000)
        \div Max(Abs(injected_kg), 1)

check_pressure_within_bounds(pressure_mpa, p_min_mpa, p_max_mpa, margin_mpa) ==
    /\ pressure_mpa >= p_min_mpa - margin_mpa
    /\ pressure_mpa <= p_max_mpa + margin_mpa

\* sample_inlet_purity_pct: the drawn value clipped to [inlet_min, inlet_max].
sample_inlet_purity_pct(val, purity_cfg) ==
    Min(purity_cfg.inlet_max, Max(purity_cfg.inlet_min, val))

\* update_purity_out_pct: inlet plus noise, clipped to [0, 100] and then to the
\* inlet bounds (purity in hundredths of a percent).
update_purity_out_pct(purity_in_pct, noise, purity_cfg) ==
    Min(purity_cfg.inlet_max,
        Max(purity_cfg.inlet_min,
            Min(10000, Max(0, purity_in_pct + noise))))

(* ---------------------------------------------------------------------- *)
(* Samplers: the values a draw of the generator may return                 *)
(* ---------------------------------------------------------------------- *)

\* rng.uniform(low, high)
UniformDraws(low, high) == {low, high}

\* rng.normal(mean, std): the mean when std is 0.
NormalDraws(mean, std) ==
    IF std = 0 THEN {mean} ELSE {mean - 3 * std, mean, mean + 3 * std}

\* rng.lognormal(log(mean), sigma): the mean when sigma is 0, positive otherwise.
LognormalDraws(mean, sigma) ==
    IF sigma = 0 THEN {mean} ELSE {mean \div 4, mean, mean * 4}

\* _sample_lognormal_bounded
sample_lognormal_bounded(value, min_val, max_val) ==
    Max(min_val, Min(value, max_val))

\* rng.choice(names, p = weights / weights.sum()): the names of positive weight.
ChoiceDraws(weights) == {n \in DOMAIN weights : weights[n] > 0}

\* weights / weights.sum() holds NaN exactly when the sum is 0, and
\* rng.choice then raises ValueError.
Normalizable(weights) == \E n \in DOMAIN weights : weights[n] > 0

(* ---------------------------------------------------------------------- *)
(* Configurations                                                          *)
(* ---------------------------------------------------------------------- *)

\* cfg["facility_types"][...]: both types draw the storage volume from the
\* salt-cavern distribution (generator.py:167).
SaltCavern ==
    [ depth_m |-> [min |-> 1000, max |-> 1000],
      cavern_volume_m3 |-> [mean |-> 10, sigma |-> 0, min |-> 1, max |-> 20],
      pressure_min_mpa |-> 60,
      pressure_max_mpa |-> 200,
      working_gas_fraction |-> 60,
      base_temperature_c |-> 15,
      temperature_gradient_c_per_km |-> 30 ]

PorousReservoir ==
    [ depth_m |-> [min |-> 1000, max |-> 2000],
      cavern_volume_m3 |-> [mean |-> 10, sigma |-> 0, min |-> 1, max |-> 20],
      pressure_min_mpa |-> 80,
      pressure_max_mpa |-> 180,
      working_gas_fraction |-> 40,
      base_temperature_c |-> 20,
      temperature_gradient_c_per_km |-> 25 ]

\* A well-formed configuration in which every distribution except the
\* hard-coded mix draws is degenerate.
BaseConfig ==
    [ n_facilities |-> 1,
      n_years |-> 1,
      start_week |-> 0,
      facility_type_weights |-> [salt_cavern |-> 1, porous_reservoir |-> 0],
      facility_types |-> [salt_cavern |-> SaltCavern, porous_reservoir |-> PorousReservoir],
      min_cycles_per_year |-> 1,
      max_cycles_per_year |-> 1,
      mode_mix |-> [injection_heavy |-> 1, withdrawal_heavy |-> 0, balanced |-> 0],
      cycle_mass_fraction_of_capacity |-> [min |-> 10, max |-> 60],
      max_relative_change_per_cycle |-> 20,
      injection_mass_kg |-> [relative_mean |-> 30, relative_sigma |-> 0],
      pressure_noise_mpa |-> [mean |-> 0, std |-> 0],
      temperature_noise_c |-> [distribution |-> "normal", mean |-> 0, std |-> 0],
      loss_fraction |-> [min |-> 0, max |-> 0],
      static_leak_kg_per_year |-> [min |-> 0, max |-> 0],
      purity |-> [inlet_mean |-> 9990, inlet_std |-> 0, inlet_min |-> 9900,
                  inlet_max |-> 10000, outlet_noise_mean |-> -5, outlet_noise_std |-> 0],
      pressure_margin_mpa |-> 5,
      thermo |-> DefaultThermo ]

OnlyMode(m) == [n \in {"injection_heavy", "withdrawal_heavy", "balanced"} |->
                    IF n = m THEN 1 ELSE 0]

NoMode == [n \in {"injection_heavy", "withdrawal_heavy", "balanced"} |-> 0]

AllModes == [n \in {"injection_heavy", "withdrawal_heavy", "balanced"} |-> 1]

WithVolume(ft, v) == [ft EXCEPT !.cavern_volume_m3.mean = v]

\* Inventory: one facility, one year, any number of cycles, one mode, loss
\* fraction in [0, 0.2], with and without a static leak (small or larger than
\* the capacity), a normal or a very small capacity, a zero, a normal or a
\* very large cycle-mass fraction.
InventoryConfigs ==
    { [BaseConfig EXCEPT
         !.min_cycles_per_year = 0,
         !.max_cycles_per_year = WeeksPerYear,
         !.mode_mix = OnlyMode(m),
         !.loss_fraction = [min |-> 0, max |-> 20],
         !.static_leak_kg_per_year = lk,
         !.cycle_mass_fraction_of_capacity = [min |-> cyc[1], max |-> cyc[2]],
         !.injection_mass_kg = [relative_mean |-> cyc[3], relative_sigma |-> 0],
         !.max_relative_change_per_cycle = cyc[4],
         !.facility_types.salt_cavern = WithVolume(SaltCavern, v)]
      : m \in {"injection_heavy", "withdrawal_heavy", "balanced"},
        lk \in {[min |-> 0, max |-> 0], [min |-> 52, max |-> 5200]},
        cyc \in {<<0, 0, 30, 20>>, <<10, 60, 30, 20>>, <<10, 300, 300, 300>>},
        v \in {1, 10} }

\* Ramping: a spread target fraction under three fraction windows, among them
\* one that lies above the initial fraction plus the ramp limit.
RampConfigs ==
    { [BaseConfig EXCEPT
         !.min_cycles_per_year = 0,
         !.max_cycles_per_year = WeeksPerYear,
         !.injection_mass_kg = [relative_mean |-> 40, relative_sigma |-> 1],
         !.cycle_mass_fraction_of_capacity = cf,
         !.max_relative_change_per_cycle = md]
      : cf \in {[min |-> 10, max |-> 90], [min |-> 50, max |-> 90]},
        md \in {20, 100} }

\* Pressure: noisy pressure, noisy temperature, or no temperature noise at
\* all, for either facility type.
PressureConfigs ==
    { [BaseConfig EXCEPT
         !.facility_type_weights = [salt_cavern |-> 1, porous_reservoir |-> 1],
         !.pressure_noise_mpa = noise[1],
         !.temperature_noise_c = noise[2]]
      : noise \in
          { << [mean |-> 0, std |-> 30], [distribution |-> "normal", mean |-> 0, std |-> 0] >>,
            << [mean |-> 0, std |-> 0],  [distribution |-> "normal", mean |-> 0, std |-> 2] >>,
            << [mean |-> 0, std |-> 0],  [distribution |-> "none", mean |-> 0, std |-> 0] >> } }

\* Several facilities or several years, one cycle per calendar year, a start
\* date on or after the first week of a calendar year, with and without
\* temperature noise.
RunConfigs ==
    { [BaseConfig EXCEPT
         !.n_facilities = shape[1],
         !.n_years = shape[2],
         !.start_week = sw,
         !.temperature_noise_c.distribution = dist]
      : shape \in ({1} \X (1..MaxYears)) \cup ((1..MaxFacilities) \X {1}),
        sw \in {0, 1},
        dist \in {"normal", "none"} }

\* Every week a cycle: one facility, one year, any start week.
EveryWeekConfigs ==
    { [BaseConfig EXCEPT
         !.start_week = sw,
         !.min_cycles_per_year = WeeksPerYear,
         !.max_cycles_per_year = WeeksPerYear,
         !.mode_mix = mm]
      : sw \in 0..(WeeksPerYear - 1),
        mm \in {OnlyMode("injection_heavy"), OnlyMode("balanced")} }

\* Weight vectors that sum to zero.
MalformedConfigs ==
    { [BaseConfig EXCEPT
         !.facility_type_weights = tw,
         !.mode_mix = mm,
         !.start_week = sw,
         !.min_cycles_per_year = 0]
      : tw \in {[salt_cavern |-> 1, porous_reservoir |-> 0],
                [salt_cavern |-> 0, porous_reservoir |-> 0]},
        mm \in {NoMode, AllModes},
        sw \in 0..(WeeksPerYear - 1) }

Configs ==
    InventoryConfigs \cup RampConfigs \cup PressureConfigs \cup RunConfigs
        \cup EveryWeekConfigs \cup MalformedConfigs

(* ---------------------------------------------------------------------- *)
(* State                                                                   *)
(* ---------------------------------------------------------------------- *)

VARIABLES
    cfg,                  \* the loaded configuration
    pc,                   \* position in generate_uhs_dataset
    error,                \* where an exception was raised, or "none"
    stream,               \* the draws of the seeded generator, in order
    pos,                  \* number of draws this run has consumed
    run,                  \* 1, or 2 in a repeated run with the same seed
    first_run,            \* the outputs of run 1 once run 2 has started
    facility_df,          \* facility metadata rows
    year_active_indices,  \* year -> set of active week indices
    fac,                  \* index of the facility being simulated
    idx,                  \* week index of the weekly loop
    sim,                  \* per-facility constants of simulate_facility_timeseries
    working_gas_kg,
    last_cycle_fraction,
    cycle_index,
    records,
    cycle_records,
    week_locals,          \* the locals of the weekly iteration just completed
    ts_frames,
    cycle_frames,
    timeseries_df,
    cycle_summary_df,
    fp                    \* one week's inventory update in rounded arithmetic

vars ==
    << cfg, pc, error, stream, pos, run, first_run, facility_df,
       year_active_indices, fac, idx, sim, working_gas_kg, last_cycle_fraction,
       cycle_index, records, cycle_records, week_locals, ts_frames, cycle_frames,
       timeseries_df, cycle_summary_df, eos, fp >>

\* State that generate_uhs_dataset builds from scratch in every run.
run_vars ==
    << facility_df, year_active_indices, fac, idx, sim, working_gas_kg,
       last_cycle_fraction, cycle_index, records, cycle_records, week_locals,
       ts_frames, cycle_frames, timeseries_df, cycle_summary_df >>

NoSim ==
    [ working_capacity_kg |-> 0, cushion_gas_kg |-> 0, static_leak_per_week |-> 0 ]

\* The locals of one weekly iteration that the records do not keep.
Locals(active, prev_fraction, ramped, drawn_inj, drawn_wd, prev_working, net, dyn, residual) ==
    [ is_active |-> active,
      prev_fraction |-> prev_fraction,       \* last_cycle_fraction on entry
      ramped_fraction |-> ramped,            \* last_cycle_fraction + delta
      drawn_injected_kg |-> drawn_inj,       \* h2_injected_kg before clamping
      drawn_withdrawn_kg |-> drawn_wd,       \* h2_withdrawn_kg before clamping
      prev_working |-> prev_working,
      net_working_kg |-> net,                \* working_gas_kg before clamping
      dynamic_losses_kg |-> dyn,
      residual |-> residual ]

NoLocals == Locals(FALSE, 0, 0, 0, 0, 0, 0, 0, 0)

FreshRun ==
    /\ pc = "create_facilities"
    /\ error = "none"
    /\ pos = 0
    /\ facility_df = <<>>
    /\ year_active_indices = <<>>
    /\ fac = 0
    /\ idx = 0
    /\ sim = NoSim
    /\ working_gas_kg = 0
    /\ last_cycle_fraction = 0
    /\ cycle_index = 0
    /\ records = <<>>
    /\ cycle_records = <<>>
    /\ week_locals = NoLocals
    /\ ts_frames = <<>>
    /\ cycle_frames = <<>>
    /\ timeseries_df = <<>>
    /\ cycle_summary_df = <<>>

\* No function of physics.py has been called on its own.
NoCall ==
    [ pc |-> "idle", fn |-> "none", pressure_mpa |-> 0, temperature_c |-> 0,
      volume_m3 |-> 0, mass_kg |-> 0, iterations |-> 0, estimate |-> 0,
      result |-> 0, round_trip |-> FALSE,
      has_prev |-> FALSE, prev_pressure |-> 0, prev_z |-> 0 ]

\* Nothing has been replayed in rounded arithmetic.
NoEvaluation ==
    [ pc |-> "idle", capacity |-> 0, prev_working |-> 0, drawn_injected_kg |-> 0,
      drawn_withdrawn_kg |-> 0, dynamic_losses_kg |-> 0, static_losses_kg |-> 0,
      working_gas_kg |-> 0, h2_injected_kg |-> 0, h2_withdrawn_kg |-> 0,
      clamp |-> "none", numerator |-> 0, residual |-> 0 ]

Init ==
    /\ cfg \in Configs
    /\ eos = NoCall
    /\ fp = NoEvaluation
    /\ stream = <<>>
    /\ run = 1
    /\ first_run = <<>>
    /\ FreshRun

(* ---------------------------------------------------------------------- *)
(* The shared generator                                                    *)
(* ---------------------------------------------------------------------- *)

\* One draw: its kind, the value returned, and the facility and week it was
\* made for (0 and -1 outside the weekly loop).
Draw(kind, val, f, w) == [kind |-> kind, val |-> val, fac |-> f, week |-> w]

\* A generator that is not seeded: every run draws afresh.
from_unseeded_generator(ds) == TRUE

\* rng = np.random.default_rng(seed): the k-th value of the stream is a
\* function of the seed, so a run that repeats the seed reads what the first
\* run read.
from_generator(ds) ==
    \A k \in 1..Len(ds) : pos + k <= Len(stream) => ds[k] = stream[pos + k]

\* The draws ds are made, in order.
Consume(ds) ==
    /\ from_generator(ds)
    /\ stream' = IF pos + Len(ds) <= Len(stream)
                 THEN stream
                 ELSE SubSeq(stream, 1, pos) \o ds
    /\ pos' = pos + Len(ds)

(* ---------------------------------------------------------------------- *)
(* Time axis                                                               *)
(* ---------------------------------------------------------------------- *)

\* generate_time_index: n_years * 52 weekly points.
NWeeks == cfg.n_years * WeeksPerYear

\* ts.year of week i, counted from the year of the start date.
YearOf(i) == (cfg.start_week + i) \div WeeksPerYear

Years == {YearOf(i) : i \in 0..(NWeeks - 1)}

\* year_to_indices
IndicesOf(y) == {i \in 0..(NWeeks - 1) : YearOf(i) = y}

RECURSIVE SetMask(_)
SetMask(S) ==
    IF S = {}
    THEN 0
    ELSE LET m == CHOOSE x \in S : \A y \in S : y <= x
         IN  2 ^ m + SetMask(S \ {m})

(* ---------------------------------------------------------------------- *)
(* create_facilities                                                       *)
(* ---------------------------------------------------------------------- *)

TypeIndex(t) == IF t = "salt_cavern" THEN 1 ELSE 2

ModeIndex(m) ==
    IF m = "injection_heavy" THEN 1 ELSE IF m = "withdrawal_heavy" THEN 2 ELSE 3

\* The draws of one loop iteration, in program order.  Geography, porosity and
\* permeability are drawn but their values are not modelled.
FacilityDraws(i, ftype, depth, vraw) ==
    << Draw("facility_type", TypeIndex(ftype), i, -1),
       Draw("country_code", 0, i, -1),
       Draw("region", 0, i, -1),
       Draw("latitude", 0, i, -1),
       Draw("longitude", 0, i, -1),
       Draw("depth_m", depth, i, -1) >>
    \o (IF ftype = "salt_cavern"
        THEN << >>
        ELSE << Draw("porosity", 0, i, -1), Draw("permeability_mD", 0, i, -1) >>)
    \o << Draw("cavern_volume_m3", vraw, i, -1) >>

\* One iteration of the loop over range(n_facilities).
CreateFacility ==
    /\ pc = "create_facilities"
    /\ Normalizable(cfg.facility_type_weights)
    /\ Len(facility_df) < cfg.n_facilities
    /\ LET i == Len(facility_df) + 1
           vol == cfg.facility_types.salt_cavern.cavern_volume_m3
       IN  \E ftype \in ChoiceDraws(cfg.facility_type_weights) :
           \E depth \in UniformDraws(cfg.facility_types[ftype].depth_m.min,
                                     cfg.facility_types[ftype].depth_m.max) :
           \E vraw \in LognormalDraws(vol.mean, vol.sigma) :
              /\ Consume(FacilityDraws(i, ftype, depth, vraw))
              /\ facility_df' = Append(facility_df,
                    [ facility_id |-> i,
                      facility_type |-> ftype,
                      depth_m |-> depth,
                      cavern_volume_m3 |-> sample_lognormal_bounded(vraw, vol.min, vol.max),
                      pressure_min_mpa |-> cfg.facility_types[ftype].pressure_min_mpa,
                      pressure_max_mpa |-> cfg.facility_types[ftype].pressure_max_mpa ])
              /\ pc' = IF i = cfg.n_facilities THEN "assign_cycles" ELSE pc
    /\ UNCHANGED << cfg, eos, fp, error, run, first_run, year_active_indices, fac, idx, sim,
                    working_gas_kg, last_cycle_fraction, cycle_index, records,
                    cycle_records, week_locals, ts_frames, cycle_frames,
                    timeseries_df, cycle_summary_df >>

\* type_probs is NaN: rng.choice(facility_types, p=type_probs) raises ValueError
\* in the first iteration.
CreateFacilityRaises ==
    /\ pc = "create_facilities"
    /\ ~Normalizable(cfg.facility_type_weights)
    /\ Len(facility_df) < cfg.n_facilities
    /\ pc' = "error"
    /\ error' = "create_facilities"
    /\ UNCHANGED << cfg, eos, fp, stream, pos, run, first_run >>
    /\ UNCHANGED run_vars

(* ---------------------------------------------------------------------- *)
(* assign_active_cycles_per_year                                           *)
(* ---------------------------------------------------------------------- *)

\* One iteration of the loop over year_to_indices.items(): the next year, in
\* order of first appearance.
AssignYear ==
    /\ pc = "assign_cycles"
    /\ LET left == Years \ DOMAIN year_active_indices
           year == CHOOSE y \in left : \A z \in left : y <= z
           indices == IndicesOf(year)
       IN  \E n \in cfg.min_cycles_per_year .. cfg.max_cycles_per_year :
           \E active \in SUBSET indices :
              /\ Cardinality(active) = Min(n, Cardinality(indices))
              /\ Consume(<< Draw("n_cycles", n, 0, -1),
                            Draw("active_weeks", SetMask(active), 0, -1) >>)
              /\ year_active_indices' = year_active_indices @@ (year :> active)
              /\ pc' = IF left = {year} THEN "simulate_setup" ELSE pc
              /\ fac' = IF left = {year} THEN 1 ELSE fac
    /\ UNCHANGED << cfg, eos, fp, error, run, first_run, facility_df, idx, sim,
                    working_gas_kg, last_cycle_fraction, cycle_index, records,
                    cycle_records, week_locals, ts_frames, cycle_frames,
                    timeseries_df, cycle_summary_df >>

(* ---------------------------------------------------------------------- *)
(* simulate_facility_timeseries: set-up                                    *)
(* ---------------------------------------------------------------------- *)

\* compute_temperature_c draws only when the configured distribution is normal.
TempNoiseDraws ==
    IF cfg.temperature_noise_c.distribution = "normal"
    THEN NormalDraws(cfg.temperature_noise_c.mean, cfg.temperature_noise_c.std)
    ELSE {0}

TemperatureDraw(noise, f, w) ==
    IF cfg.temperature_noise_c.distribution = "normal"
    THEN << Draw("temperature", noise, f, w) >>
    ELSE << >>

\* _compute_facility_capacity_kg: [working_capacity_kg, cushion_gas_kg]
compute_facility_capacity_kg(row, noise) ==
    LET fcfg == cfg.facility_types[row.facility_type]
        temp_c == compute_temperature_c(row.depth_m, fcfg.base_temperature_c,
                                        fcfg.temperature_gradient_c_per_km, noise)
        total_mass_kg == mass_from_pvt(fcfg.pressure_max_mpa, temp_c,
                                       row.cavern_volume_m3, cfg.thermo)
        working_capacity_kg == Max(PctOf(total_mass_kg, fcfg.working_gas_fraction), 0)
    IN  [ working_capacity_kg |-> working_capacity_kg,
          cushion_gas_kg |-> Max(total_mass_kg - working_capacity_kg, 0) ]

\* Lines 327-390: capacity, initial inventory, static leak, loop state.
SimulateSetup ==
    /\ pc = "simulate_setup"
    /\ \E noise \in TempNoiseDraws :
       \E leak \in UniformDraws(cfg.static_leak_kg_per_year.min,
                                cfg.static_leak_kg_per_year.max) :
          LET capacity == compute_facility_capacity_kg(facility_df[fac], noise)
          IN  /\ Consume(TemperatureDraw(noise, fac, -1)
                         \o << Draw("static_leak", leak, fac, -1) >>)
              /\ sim' = [ working_capacity_kg |-> capacity.working_capacity_kg,
                          cushion_gas_kg |-> capacity.cushion_gas_kg,
                          static_leak_per_week |-> leak \div LeakWeeksPerYear ]
              /\ working_gas_kg' = PctOf(capacity.working_capacity_kg, InitialFillPct)
    /\ last_cycle_fraction' = InitialCycleFraction
    /\ cycle_index' = 0
    /\ records' = << >>
    /\ cycle_records' = << >>
    /\ week_locals' = NoLocals
    /\ idx' = 0
    /\ pc' = "weekly_loop"
    /\ UNCHANGED << cfg, eos, fp, error, run, first_run, facility_df, year_active_indices,
                    fac, ts_frames, cycle_frames, timeseries_df, cycle_summary_df >>

(* ---------------------------------------------------------------------- *)
(* simulate_facility_timeseries: the weekly loop                           *)
(* ---------------------------------------------------------------------- *)

\* The schedule of the first calendar year is consulted for every week.
is_active_first_year(i) ==
    /\ YearOf(0) \in DOMAIN year_active_indices
    /\ i \in year_active_indices[YearOf(0)]

\* Each facility consults the schedule one week later than the facility before.
is_active_per_facility(i) ==
    /\ YearOf(i) \in DOMAIN year_active_indices
    /\ \E j \in year_active_indices[YearOf(i)] :
          IndicesOf(YearOf(i)) \cap {j + fac - 1, j + fac - 1 - WeeksPerYear} = {i}

\* idx in year_active_indices.get(year, [])
is_active(i) ==
    /\ YearOf(i) \in DOMAIN year_active_indices
    /\ i \in year_active_indices[YearOf(i)]

\* The change against the previous cycle's fraction is not capped.
ramp_fraction_uncapped(target_raw, last_fraction) ==
    LET cap_min_frac == cfg.cycle_mass_fraction_of_capacity.min
        cap_max_frac == cfg.cycle_mass_fraction_of_capacity.max
        target_frac == Max(cap_min_frac, Min(target_raw, cap_max_frac))
    IN  [ ramped |-> target_frac, cycle_frac |-> target_frac ]

\* The drawn target is not clipped before the change is capped.
ramp_fraction_raw_target(target_raw, last_fraction) ==
    LET cap_min_frac == cfg.cycle_mass_fraction_of_capacity.min
        cap_max_frac == cfg.cycle_mass_fraction_of_capacity.max
        max_delta_frac == cfg.max_relative_change_per_cycle
        delta == Max(-max_delta_frac, Min(target_raw - last_fraction, max_delta_frac))
        ramped == last_fraction + delta
    IN  [ ramped |-> ramped,
          cycle_frac |-> Max(cap_min_frac, Min(ramped, cap_max_frac)) ]

\* Lines 424-429: clip the drawn target, cap the change against the previous
\* cycle's fraction, clip again.
ramp_fraction(target_raw, last_fraction) ==
    LET cap_min_frac == cfg.cycle_mass_fraction_of_capacity.min
        cap_max_frac == cfg.cycle_mass_fraction_of_capacity.max
        max_delta_frac == cfg.max_relative_change_per_cycle
        target_frac == Max(cap_min_frac, Min(target_raw, cap_max_frac))
        delta == Max(-max_delta_frac, Min(target_frac - last_fraction, max_delta_frac))
        ramped == last_fraction + delta
    IN  [ ramped |-> ramped,
          cycle_frac |-> Max(cap_min_frac, Min(ramped, cap_max_frac)) ]

\* rng.uniform(0.1, 0.6), or rng.uniform(-0.1, 0.1) in balanced mode.
MixDraws(mode) ==
    IF mode = "balanced" THEN UniformDraws(-10, 10) ELSE UniformDraws(10, 60)

\* Lines 434-444: injected and withdrawn mass of the cycle.
cycle_masses(mode, target_mass, u) ==
    IF mode = "injection_heavy"
    THEN [ h2_injected_kg |-> target_mass, h2_withdrawn_kg |-> PctOf(target_mass, u) ]
    ELSE IF mode = "withdrawal_heavy"
    THEN [ h2_injected_kg |-> PctOf(target_mass, u), h2_withdrawn_kg |-> target_mass ]
    ELSE LET eps == PctOf(target_mass, u)
         IN  [ h2_injected_kg |-> Max(target_mass + eps, 0),
               h2_withdrawn_kg |-> Max(target_mass - eps, 0) ]

\* The flows are corrected but working_gas_kg is left at the net value.
clamp_inventory_flows_only(net_working_kg, h2_injected_kg, h2_withdrawn_kg, working_capacity_kg) ==
    [ working_gas_kg |-> net_working_kg,
      h2_injected_kg |->
          IF net_working_kg > working_capacity_kg
          THEN h2_injected_kg - Min(net_working_kg - working_capacity_kg, h2_injected_kg)
          ELSE h2_injected_kg,
      h2_withdrawn_kg |->
          IF net_working_kg < 0
          THEN h2_withdrawn_kg - Min(-net_working_kg, h2_withdrawn_kg)
          ELSE h2_withdrawn_kg ]

\* A deficit is made up by raising the injection, an excess by raising the
\* withdrawal.
clamp_inventory_other_flow(net_working_kg, h2_injected_kg, h2_withdrawn_kg, working_capacity_kg) ==
    IF net_working_kg < 0
    THEN [ working_gas_kg |-> 0,
           h2_injected_kg |-> h2_injected_kg - net_working_kg,
           h2_withdrawn_kg |-> h2_withdrawn_kg ]
    ELSE IF net_working_kg > working_capacity_kg
    THEN [ working_gas_kg |-> working_capacity_kg,
           h2_injected_kg |-> h2_injected_kg,
           h2_withdrawn_kg |-> h2_withdrawn_kg + (net_working_kg - working_capacity_kg) ]
    ELSE [ working_gas_kg |-> net_working_kg,
           h2_injected_kg |-> h2_injected_kg,
           h2_withdrawn_kg |-> h2_withdrawn_kg ]

\* Lines 456-469: the two clamps, in program order.
clamp_inventory(net_working_kg, h2_injected_kg, h2_withdrawn_kg, working_capacity_kg) ==
    LET low == IF net_working_kg < 0
               THEN [ working_gas_kg |-> 0,
                      h2_injected_kg |-> h2_injected_kg,
                      h2_withdrawn_kg |->
                          h2_withdrawn_kg - Min(-net_working_kg, h2_withdrawn_kg) ]
               ELSE [ working_gas_kg |-> net_working_kg,
                      h2_injected_kg |-> h2_injected_kg,
                      h2_withdrawn_kg |-> h2_withdrawn_kg ]
    IN  IF low.working_gas_kg > working_capacity_kg
        THEN [ working_gas_kg |-> working_capacity_kg,
               h2_injected_kg |->
                   low.h2_injected_kg
                       - Min(low.working_gas_kg - working_capacity_kg, low.h2_injected_kg),
               h2_withdrawn_kg |-> low.h2_withdrawn_kg ]
        ELSE low

\* withdrawn / injected in thousandths.
Ratio(a, b) == (a * 1000) \div b

\* The two masses change places.
cycle_efficiency_swapped(h2_injected_kg, h2_withdrawn_kg) ==
    IF h2_withdrawn_kg > 0 THEN Ratio(h2_injected_kg, h2_withdrawn_kg) ELSE NaN

\* Lines 475-478.
cycle_efficiency_of(h2_injected_kg, h2_withdrawn_kg) ==
    IF h2_injected_kg > 0 THEN Ratio(h2_withdrawn_kg, h2_injected_kg) ELSE NaN

\* Only the lower clamp is applied.
clamp_pressure_lower_only(pressure_mpa, pmin, pmax, margin) ==
    Max(pmin - margin, pressure_mpa)

\* Lines 525-526: the lower clamp, then the upper clamp.
clamp_pressure(pressure_mpa, pmin, pmax, margin) ==
    Min(pmax + margin, Max(pmin - margin, pressure_mpa))

\* Lines 512-526: pressure of the total gas, plus noise, clamped.
weekly_pressure(working, temperature_c, noise) ==
    LET row == facility_df[fac]
    IN  clamp_pressure(
            pressure_from_mass(working + sim.cushion_gas_kg, temperature_c,
                               row.cavern_volume_m3, cfg.thermo) + noise,
            row.pressure_min_mpa, row.pressure_max_mpa, cfg.pressure_margin_mpa)

weekly_temperature(noise) ==
    LET row == facility_df[fac]
        fcfg == cfg.facility_types[row.facility_type]
    IN  compute_temperature_c(row.depth_m, fcfg.base_temperature_c,
                              fcfg.temperature_gradient_c_per_km, noise)

PressureNoiseDraws ==
    NormalDraws(cfg.pressure_noise_mpa.mean, cfg.pressure_noise_mpa.std)

\* The running counter is reported in inactive weeks too.
WeeklyRecordRunningIndex(cyc, active, inj, wd, working, losses, pressure, temp, pin, pout, eff) ==
    [ facility_id |-> fac,
      timestamp |-> idx,
      cycle_index |-> cyc,
      is_cycle_active |-> active,
      h2_injected_kg |-> inj,
      h2_withdrawn_kg |-> wd,
      working_gas_kg |-> working,
      cushion_gas_kg |-> sim.cushion_gas_kg,
      losses_kg |-> losses,
      pressure_mpa |-> pressure,
      temperature_c |-> temp,
      purity_in_pct |-> pin,
      purity_out_pct |-> pout,
      cycle_efficiency |-> eff ]

\* An inactive week reports no loss.
WeeklyRecordNoIdleLoss(cyc, active, inj, wd, working, losses, pressure, temp, pin, pout, eff) ==
    [ facility_id |-> fac,
      timestamp |-> idx,
      cycle_index |-> IF active THEN cyc ELSE 0,
      is_cycle_active |-> active,
      h2_injected_kg |-> inj,
      h2_withdrawn_kg |-> wd,
      working_gas_kg |-> working,
      cushion_gas_kg |-> sim.cushion_gas_kg,
      losses_kg |-> IF active THEN losses ELSE 0,
      pressure_mpa |-> pressure,
      temperature_c |-> temp,
      purity_in_pct |-> pin,
      purity_out_pct |-> pout,
      cycle_efficiency |-> eff ]

\* Lines 538-555.
WeeklyRecord(cyc, active, inj, wd, working, losses, pressure, temp, pin, pout, eff) ==
    [ facility_id |-> fac,
      timestamp |-> idx,
      cycle_index |-> IF active THEN cyc ELSE 0,
      is_cycle_active |-> active,
      h2_injected_kg |-> inj,
      h2_withdrawn_kg |-> wd,
      working_gas_kg |-> working,
      cushion_gas_kg |-> sim.cushion_gas_kg,
      losses_kg |-> losses,
      pressure_mpa |-> pressure,
      temperature_c |-> temp,
      purity_in_pct |-> pin,
      purity_out_pct |-> pout,
      cycle_efficiency |-> eff ]

\* Lines 493-506.
CycleRecord(cyc, inj, wd, losses, temp, eff) ==
    [ facility_id |-> fac,
      cycle_index |-> cyc,
      cycle_start |-> idx,
      cycle_end |-> idx + 1,
      total_injected_kg |-> inj,
      total_withdrawn_kg |-> wd,
      total_losses_kg |-> losses,
      avg_pressure_mpa |-> NaN,
      avg_temperature_c |-> temp,
      cycle_efficiency |-> eff ]

\* The target fraction is drawn before the mode.
CycleDrawsFractionFirst(mode, target_raw, u, loss_fraction, pin_raw, pout_noise) ==
    << Draw("target_fraction", target_raw, fac, idx),
       Draw("mode", ModeIndex(mode), fac, idx),
       Draw("mix", u, fac, idx),
       Draw("loss_fraction", loss_fraction, fac, idx),
       Draw("inlet_purity", pin_raw, fac, idx),
       Draw("outlet_purity_noise", pout_noise, fac, idx) >>

\* The draws of an active week between the temperature draw and the
\* pressure-noise draw (lines 420, 423, 436-442, 447, 480, 481).
CycleDraws(mode, target_raw, u, loss_fraction, pin_raw, pout_noise) ==
    << Draw("mode", ModeIndex(mode), fac, idx),
       Draw("target_fraction", target_raw, fac, idx),
       Draw("mix", u, fac, idx),
       Draw("loss_fraction", loss_fraction, fac, idx),
       Draw("inlet_purity", pin_raw, fac, idx),
       Draw("outlet_purity_noise", pout_noise, fac, idx) >>

AfterWeek == IF idx + 1 = NWeeks THEN "aggregate" ELSE "weekly_loop"

\* A week that is not in the activation schedule.
InactiveWeek ==
    /\ pc = "weekly_loop"
    /\ ~is_active(idx)
    /\ \E tnoise \in TempNoiseDraws :
       \E pnoise \in PressureNoiseDraws :
          LET temperature_c == weekly_temperature(tnoise)
              static_losses_kg == sim.static_leak_per_week
              working == Max(working_gas_kg - sim.static_leak_per_week, 0)
              pressure_mpa == weekly_pressure(working, temperature_c, pnoise)
              pin == IF records # << >>
                     THEN records[Len(records)].purity_in_pct
                     ELSE cfg.purity.inlet_mean
              pout == IF records # << >>
                      THEN records[Len(records)].purity_out_pct
                      ELSE cfg.purity.inlet_mean
          IN  /\ Consume(TemperatureDraw(tnoise, fac, idx)
                         \o << Draw("pressure_noise", pnoise, fac, idx) >>)
              /\ working_gas_kg' = working
              /\ records' = Append(records,
                    WeeklyRecord(cycle_index, FALSE, 0, 0, working, static_losses_kg,
                                 pressure_mpa, temperature_c, pin, pout, NaN))
              /\ week_locals' = Locals(FALSE, last_cycle_fraction, last_cycle_fraction,
                                       0, 0, working_gas_kg, working, 0, 0)
    /\ idx' = idx + 1
    /\ pc' = AfterWeek
    /\ UNCHANGED << cfg, eos, fp, error, run, first_run, facility_df, year_active_indices,
                    fac, sim, last_cycle_fraction, cycle_index, cycle_records,
                    ts_frames, cycle_frames, timeseries_df, cycle_summary_df >>

\* A week of the activation schedule: one whole cycle.
ActiveWeek ==
    /\ pc = "weekly_loop"
    /\ is_active(idx)
    /\ Normalizable(cfg.mode_mix)
    /\ \E tnoise \in TempNoiseDraws :
       \E mode \in ChoiceDraws(cfg.mode_mix) :
       \E target_raw \in LognormalDraws(cfg.injection_mass_kg.relative_mean,
                                        cfg.injection_mass_kg.relative_sigma) :
       \E u \in MixDraws(mode) :
       \E loss_fraction \in UniformDraws(cfg.loss_fraction.min, cfg.loss_fraction.max) :
       \E pin_raw \in NormalDraws(cfg.purity.inlet_mean, cfg.purity.inlet_std) :
       \E pout_noise \in NormalDraws(cfg.purity.outlet_noise_mean,
                                     cfg.purity.outlet_noise_std) :
       \E pnoise \in PressureNoiseDraws :
          LET temperature_c == weekly_temperature(tnoise)
              static_losses_kg == sim.static_leak_per_week
              leaked == Max(working_gas_kg - sim.static_leak_per_week, 0)
              cyc == cycle_index + 1
              ramp == ramp_fraction(target_raw, last_cycle_fraction)
              target_mass == PctOf(sim.working_capacity_kg, ramp.cycle_frac)
              drawn == cycle_masses(mode, target_mass, u)
              dynamic_losses_kg == compute_cycle_losses_kg(leaked, loss_fraction)
              prev_working == leaked
              net == leaked + drawn.h2_injected_kg - drawn.h2_withdrawn_kg
                        - dynamic_losses_kg - static_losses_kg
              clamped == clamp_inventory(net, drawn.h2_injected_kg,
                                         drawn.h2_withdrawn_kg, sim.working_capacity_kg)
              total_cycle_losses_kg == dynamic_losses_kg + static_losses_kg
              delta_storage_kg == clamped.working_gas_kg - prev_working
              eff == cycle_efficiency_of(clamped.h2_injected_kg, clamped.h2_withdrawn_kg)
              pin == sample_inlet_purity_pct(pin_raw, cfg.purity)
              pout == update_purity_out_pct(pin, pout_noise, cfg.purity)
              residual == mass_balance_residual_fraction(
                              clamped.h2_injected_kg, clamped.h2_withdrawn_kg,
                              total_cycle_losses_kg, delta_storage_kg)
              pressure_mpa == weekly_pressure(clamped.working_gas_kg, temperature_c, pnoise)
          IN  /\ Consume(TemperatureDraw(tnoise, fac, idx)
                         \o CycleDraws(mode, target_raw, u, loss_fraction,
                                       pin_raw, pout_noise)
                         \o << Draw("pressure_noise", pnoise, fac, idx) >>)
              /\ cycle_index' = cyc
              /\ last_cycle_fraction' = ramp.cycle_frac
              /\ working_gas_kg' = clamped.working_gas_kg
              /\ cycle_records' = Append(cycle_records,
                    CycleRecord(cyc, clamped.h2_injected_kg, clamped.h2_withdrawn_kg,
                                total_cycle_losses_kg, temperature_c, eff))
              /\ records' = Append(records,
                    WeeklyRecord(cyc, TRUE, clamped.h2_injected_kg,
                                 clamped.h2_withdrawn_kg, clamped.working_gas_kg,
                                 total_cycle_losses_kg, pressure_mpa, temperature_c,
                                 pin, pout, eff))
              /\ week_locals' = Locals(TRUE, last_cycle_fraction, ramp.ramped,
                                       drawn.h2_injected_kg, drawn.h2_withdrawn_kg,
                                       prev_working, net, dynamic_losses_kg, residual)
    /\ idx' = idx + 1
    /\ pc' = AfterWeek
    /\ UNCHANGED << cfg, eos, fp, error, run, first_run, facility_df, year_active_indices,
                    fac, sim, ts_frames, cycle_frames, timeseries_df,
                    cycle_summary_df >>

\* mode_probs is NaN: in the first active week rng.choice(mode_choices,
\* p=mode_probs) raises ValueError, after the temperature draw, the static
\* leak and the increment of cycle_index.
ActiveWeekRaises ==
    /\ pc = "weekly_loop"
    /\ is_active(idx)
    /\ ~Normalizable(cfg.mode_mix)
    /\ \E tnoise \in TempNoiseDraws : Consume(TemperatureDraw(tnoise, fac, idx))
    /\ working_gas_kg' = Max(working_gas_kg - sim.static_leak_per_week, 0)
    /\ cycle_index' = cycle_index + 1
    /\ pc' = "error"
    /\ error' = "weekly_step"
    /\ UNCHANGED << cfg, eos, fp, run, first_run, facility_df, year_active_indices, fac, idx,
                    sim, last_cycle_fraction, records, cycle_records, week_locals,
                    ts_frames, cycle_frames, timeseries_df, cycle_summary_df >>

(* ---------------------------------------------------------------------- *)
(* Aggregation and output                                                  *)
(* ---------------------------------------------------------------------- *)

\* The mean is taken over all weekly rows of the facility.
avg_pressure_of_all_rows(rows, cr) ==
    IF rows = << >>
    THEN NaN
    ELSE SeqSum([k \in DOMAIN rows |-> rows[k].pressure_mpa]) \div Len(rows)

\* groupby(["facility_id", "cycle_index"])["pressure_mpa"].mean() over the
\* weekly rows with cycle_index > 0, left-merged into the cycle rows.
avg_pressure_of(rows, cr) ==
    LET same(r) == /\ r.cycle_index > 0
                   /\ r.cycle_index = cr.cycle_index
                   /\ r.facility_id = cr.facility_id
        group == SelectSeq(rows, same)
    IN  IF group = << >>
        THEN NaN
        ELSE SeqSum([k \in DOMAIN group |-> group[k].pressure_mpa]) \div Len(group)

fill_avg_pressure(rows, cycles) ==
    [k \in DOMAIN cycles |->
        [cycles[k] EXCEPT !.avg_pressure_mpa = avg_pressure_of(rows, cycles[k])]]

\* Lines 557-581 and the caller's lines 640-641.
Aggregate ==
    /\ pc = "aggregate"
    /\ ts_frames' = Append(ts_frames, records)
    /\ cycle_frames' = Append(cycle_frames, fill_avg_pressure(records, cycle_records))
    /\ IF fac < cfg.n_facilities
       THEN /\ fac' = fac + 1
            /\ pc' = "simulate_setup"
       ELSE /\ fac' = fac
            /\ pc' = "concat"
    /\ UNCHANGED << cfg, eos, fp, error, stream, pos, run, first_run, facility_df,
                    year_active_indices, idx, sim, working_gas_kg,
                    last_cycle_fraction, cycle_index, records, cycle_records,
                    week_locals, timeseries_df, cycle_summary_df >>

\* Lines 643-677: pd.concat of the per-facility frames.
Concat ==
    /\ pc = "concat"
    /\ timeseries_df' = Flatten(ts_frames)
    /\ cycle_summary_df' = Flatten(cycle_frames)
    /\ pc' = "done"
    /\ UNCHANGED << cfg, eos, fp, error, stream, pos, run, first_run, facility_df,
                    year_active_indices, fac, idx, sim, working_gas_kg,
                    last_cycle_fraction, cycle_index, records, cycle_records,
                    week_locals, ts_frames, cycle_frames >>

Next ==
    \/ CreateFacility
    \/ CreateFacilityRaises
    \/ AssignYear
    \/ SimulateSetup
    \/ InactiveWeek
    \/ ActiveWeek
    \/ ActiveWeekRaises
    \/ Aggregate
    \/ Concat

Spec == Init /\ [][Next]_vars

(* ---------------------------------------------------------------------- *)
(* Two runs with one seed                                                  *)
(* ---------------------------------------------------------------------- *)

TwoRunConfigs == PressureConfigs \cup RunConfigs \cup MalformedConfigs

InitTwoRuns == Init /\ cfg \in TwoRunConfigs

\* generate_uhs_dataset is called again with the same configuration: the
\* generator is seeded anew (pos = 0) and every local starts afresh.  The
\* outputs of the first call are kept for comparison.
SecondRun ==
    /\ pc = "done"
    /\ run = 1
    /\ first_run' = [ facility_df |-> facility_df,
                      timeseries_df |-> timeseries_df,
                      cycle_summary_df |-> cycle_summary_df ]
    /\ run' = 2
    /\ pos' = 0
    /\ pc' = "create_facilities"
    /\ facility_df' = << >>
    /\ year_active_indices' = << >>
    /\ fac' = 0
    /\ idx' = 0
    /\ sim' = NoSim
    /\ working_gas_kg' = 0
    /\ last_cycle_fraction' = 0
    /\ cycle_index' = 0
    /\ records' = << >>
    /\ cycle_records' = << >>
    /\ week_locals' = NoLocals
    /\ ts_frames' = << >>
    /\ cycle_frames' = << >>
    /\ timeseries_df' = << >>
    /\ cycle_summary_df' = << >>
    /\ UNCHANGED << cfg, eos, fp, error, stream >>

NextTwoRuns ==
    \/ Next
    \/ SecondRun

SpecTwoRuns == InitTwoRuns /\ [][NextTwoRuns]_vars

(* ---------------------------------------------------------------------- *)
(* physics.py called on its own                                            *)
(* ---------------------------------------------------------------------- *)

\* A table whose segments overlap on [10, 15) MPa and that starts at 5 MPa.
OverlapThermo ==
    [ gas_constant_R_J_per_molK |-> 8,
      molar_mass_H2_g_per_mol |-> 2,
      compressibility_segments |->
        << [pressure_min_mpa |-> 50,  pressure_max_mpa |-> 150, Z |-> 100],
           [pressure_min_mpa |-> 100, pressure_max_mpa |-> 300, Z |-> 105] >> ]

PhysicsConfigs == { [BaseConfig EXCEPT !.thermo = t] : t \in {DefaultThermo, OverlapThermo} }

\* Arguments of the calls: pressures (0.1 MPa) on, next to and away from the
\* segment boundaries and outside the tables, two temperatures, volumes and
\* masses on both sides of 0.
EosPressures == {1, 30, 50, 99, 100, 101, 120, 150, 199, 200, 201, 300, 399, 400, 450}

EosTemperatures == {15, 45}

EosVolumes == {-1, 0, 100, 200}

EosMasses == {-5, 0, 100, 3000}

InitPhysics ==
    /\ cfg \in PhysicsConfigs
    /\ eos = NoCall
    /\ fp = NoEvaluation
    /\ stream = << >>
    /\ run = 1
    /\ first_run = << >>
    /\ FreshRun

CanCall == eos.pc \in {"idle", "returned"}

GeneratorIdle ==
    /\ UNCHANGED << cfg, fp, pc, error, stream, pos, run, first_run >>
    /\ UNCHANGED run_vars

\* get_compressibility_z(pressure_mpa, thermo), after any earlier call.
CallGetCompressibilityZ ==
    /\ CanCall
    /\ \E p \in EosPressures :
          eos' = [NoCall EXCEPT
                    !.pc = "returned",
                    !.fn = "get_compressibility_z",
                    !.pressure_mpa = p,
                    !.result = get_compressibility_z(p, cfg.thermo),
                    !.has_prev = (eos.fn = "get_compressibility_z"),
                    !.prev_pressure = eos.pressure_mpa,
                    !.prev_z = eos.result]
    /\ GeneratorIdle

\* mass_from_pvt(pressure_mpa, temperature_c, volume_m3, thermo)
CallMassFromPvt ==
    /\ CanCall
    /\ \E p \in EosPressures, t \in EosTemperatures, v \in EosVolumes :
          eos' = [NoCall EXCEPT
                    !.pc = "returned",
                    !.fn = "mass_from_pvt",
                    !.pressure_mpa = p,
                    !.temperature_c = t,
                    !.volume_m3 = v,
                    !.result = mass_from_pvt(p, t, v, cfg.thermo)]
    /\ GeneratorIdle

\* pressure_from_mass up to the loop: the early return of line 243-244, or
\* the seed of line 253.
EnterPressureFromMass(m, t, v, p, rt) ==
    eos' = IF degenerate_inputs(m, v)
           THEN [NoCall EXCEPT
                    !.pc = "returned", !.fn = "pressure_from_mass",
                    !.mass_kg = m, !.temperature_c = t, !.volume_m3 = v,
                    !.pressure_mpa = p, !.round_trip = rt, !.result = 0]
           ELSE [NoCall EXCEPT
                    !.pc = "loop", !.fn = "pressure_from_mass",
                    !.mass_kg = m, !.temperature_c = t, !.volume_m3 = v,
                    !.pressure_mpa = p, !.round_trip = rt,
                    !.estimate = SeedPressure]

\* pressure_from_mass(mass_kg, temperature_c, volume_m3, thermo)
CallPressureFromMass ==
    /\ CanCall
    /\ \E m \in EosMasses, t \in EosTemperatures, v \in EosVolumes :
          EnterPressureFromMass(m, t, v, 0, FALSE)
    /\ GeneratorIdle

\* pressure_from_mass(mass_from_pvt(P, T, V, thermo), T, V, thermo)
CallRoundTrip ==
    /\ eos.pc = "returned"
    /\ eos.fn = "mass_from_pvt"
    /\ EnterPressureFromMass(eos.result, eos.temperature_c, eos.volume_m3,
                             eos.pressure_mpa, TRUE)
    /\ GeneratorIdle

\* One iteration of for _ in range(5).
IterateFixedPoint ==
    /\ eos.pc = "loop"
    /\ eos.iterations < FixedPointIterations
    /\ eos' = [eos EXCEPT
                 !.iterations = @ + 1,
                 !.estimate = fixed_point_step(eos.estimate, eos.mass_kg,
                                  eos.temperature_c + KelvinOffset,
                                  [thermo |-> cfg.thermo, volume_m3 |-> eos.volume_m3])]
    /\ GeneratorIdle

\* return max(float(pressure_mpa_final), 0.0)
ReturnPressure ==
    /\ eos.pc = "loop"
    /\ eos.iterations = FixedPointIterations
    /\ eos' = [eos EXCEPT !.pc = "returned", !.result = Max(eos.estimate, 0)]
    /\ GeneratorIdle

NextPhysics ==
    \/ CallGetCompressibilityZ
    \/ CallMassFromPvt
    \/ CallPressureFromMass
    \/ CallRoundTrip
    \/ IterateFixedPoint
    \/ ReturnPressure

SpecPhysics == InitPhysics /\ [][NextPhysics]_vars

(* ---------------------------------------------------------------------- *)
(* One active week in rounded arithmetic                                   *)
(* ---------------------------------------------------------------------- *)

\* The generator computes on Python floats.  The inventory update, the clamps
\* and the residual of one active week (generator.py:450-491) are replayed
\* here on a binary floating-point format with MantissaBits significant bits:
\* a value is an integer number of mass units, and every sum or difference is
\* rounded to the nearest representable value, ties to even, as IEEE 754 does.

\* Spacing of the representable values around x.
RECURSIVE Ulp(_)
Ulp(x) == IF Abs(x) < 2 ^ MantissaBits THEN 1 ELSE 2 * Ulp(Abs(x) \div 2)

\* x rounded to the nearest representable value, ties to the even significand.
Fl(x) ==
    LET a == Abs(x)
        u == Ulp(a)
        q == a \div u
        r == a % u
        up == 2 * r > u \/ (2 * r = u /\ q % 2 = 1)
        m == (IF up THEN q + 1 ELSE q) * u
    IN  IF x < 0 THEN -m ELSE m

\* working_gas_kg + h2_injected_kg - h2_withdrawn_kg - dynamic_losses_kg
\*     - static_losses_kg, evaluated left to right.
net_update_rounded(prev_working, injected_kg, withdrawn_kg, dynamic_losses_kg, static_losses_kg) ==
    Fl(Fl(Fl(Fl(prev_working + injected_kg) - withdrawn_kg) - dynamic_losses_kg)
         - static_losses_kg)

\* The two clamps, with the flow each one reduces.
clamp_inventory_rounded(net_working_kg, injected_kg, withdrawn_kg, capacity) ==
    LET deficit == -net_working_kg
        low == net_working_kg < 0
        wd == IF low THEN Fl(withdrawn_kg - Min(deficit, withdrawn_kg))
                     ELSE withdrawn_kg
        w1 == IF low THEN 0 ELSE net_working_kg
        high == w1 > capacity
        excess == Fl(w1 - capacity)
        inj == IF high THEN Fl(injected_kg - Min(excess, injected_kg))
                       ELSE injected_kg
        w2 == IF high THEN capacity ELSE w1
    IN  [ working_gas_kg |-> w2, h2_injected_kg |-> inj, h2_withdrawn_kg |-> wd,
          clamp |-> IF high THEN "capacity"
                    ELSE IF low /\ deficit > withdrawn_kg THEN "zero_beyond"
                    ELSE IF low THEN "zero"
                    ELSE "none" ]

\* The losses are left out of the balance.
residual_numerator_without_losses(injected_kg, withdrawn_kg, losses_kg, delta_storage_kg) ==
    Abs(Fl(Fl(injected_kg - withdrawn_kg) - delta_storage_kg))

\* numerator of mass_balance_residual_fraction:
\* abs(injected_kg - withdrawn_kg - losses_kg - delta_storage_kg).
residual_numerator_rounded(injected_kg, withdrawn_kg, losses_kg, delta_storage_kg) ==
    Abs(Fl(Fl(Fl(injected_kg - withdrawn_kg) - losses_kg) - delta_storage_kg))

\* compute_cycle_losses_kg on the rounded format.
compute_cycle_losses_rounded(working_gas, loss_fraction) ==
    IF working_gas <= 0 \/ loss_fraction <= 0
    THEN 0
    ELSE Max(Fl(PctOf(working_gas, loss_fraction)), 0)

\* Working capacity of the facility, weekly static leak, drawn injected and
\* withdrawn masses and drawn loss fraction (percent); all representable.
RoundedCapacities == {120}

RoundedStaticLeaks == {0, 30}

RoundedFlows == {0, 7, 45, 70}

RoundedLossFractions == {0, 5, 50}

\* The facility starts half full (generator.py:349), with its weekly static
\* leak fixed for the run (generator.py:350-355).
InitRounding ==
    /\ cfg = BaseConfig
    /\ eos = NoCall
    /\ \E capacity \in RoundedCapacities, static_losses_kg \in RoundedStaticLeaks :
          fp = [NoEvaluation EXCEPT
                  !.capacity = capacity,
                  !.static_losses_kg = static_losses_kg,
                  !.working_gas_kg = Fl(PctOf(capacity, InitialFillPct))]
    /\ stream = << >>
    /\ run = 1
    /\ first_run = << >>
    /\ FreshRun

\* Lines 446-491 of one active week: dynamic loss, net update, clamps, losses,
\* change of storage, residual.  The week starts from the inventory the week
\* before left.
ActiveWeekRounded ==
    /\ \E injected_kg \in RoundedFlows, withdrawn_kg \in RoundedFlows,
          loss_fraction \in RoundedLossFractions :
          \E dynamic_losses_kg \in
                {compute_cycle_losses_rounded(fp.working_gas_kg, loss_fraction)} :
          \E net \in {net_update_rounded(fp.working_gas_kg, injected_kg, withdrawn_kg,
                                         dynamic_losses_kg, fp.static_losses_kg)} :
          \E clamped \in {clamp_inventory_rounded(net, injected_kg, withdrawn_kg,
                                                  fp.capacity)} :
          \E total_cycle_losses_kg \in {Fl(dynamic_losses_kg + fp.static_losses_kg)} :
          \E delta_storage_kg \in {Fl(clamped.working_gas_kg - fp.working_gas_kg)} :
          \E numerator \in {residual_numerator_rounded(clamped.h2_injected_kg,
                                                       clamped.h2_withdrawn_kg,
                                                       total_cycle_losses_kg,
                                                       delta_storage_kg)} :
              fp' = [ pc |-> "week_done",
                      capacity |-> fp.capacity,
                      prev_working |-> fp.working_gas_kg,
                      drawn_injected_kg |-> injected_kg,
                      drawn_withdrawn_kg |-> withdrawn_kg,
                      dynamic_losses_kg |-> dynamic_losses_kg,
                      static_losses_kg |-> fp.static_losses_kg,
                      working_gas_kg |-> clamped.working_gas_kg,
                      h2_injected_kg |-> clamped.h2_injected_kg,
                      h2_withdrawn_kg |-> clamped.h2_withdrawn_kg,
                      clamp |-> clamped.clamp,
                      numerator |-> numerator,
                      residual |-> (numerator * 1000)
                                      \div Max(Abs(clamped.h2_injected_kg), 1) ]
    /\ UNCHANGED << cfg, eos, pc, error, stream, pos, run, first_run >>
    /\ UNCHANGED run_vars

NextRounding == ActiveWeekRounded

SpecRounding == InitRounding /\ [][NextRounding]_vars

(* ---------------------------------------------------------------------- *)
(* Properties                                                              *)
(* ---------------------------------------------------------------------- *)

\* The weekly records of the facility being simulated are in records; those
\* of the facilities already simulated are in ts_frames.
InWeeklyLoop == pc \in {"weekly_loop", "aggregate"}

JustRan == InWeeklyLoop /\ records # << >>

LastRecord == records[Len(records)]

\* C1. Capacity invariant: every weekly record of the facility being
\* simulated has 0 <= working_gas_kg <= working_capacity_kg, whatever the
\* schedule and the draws, for a static leak >= 0, also when the capacity is
\* small against the leak and the drawn masses.
C1_CapacityInvariant ==
    \A k \in DOMAIN records :
        /\ 0 <= records[k].working_gas_kg
        /\ records[k].working_gas_kg <= sim.working_capacity_kg

\* An active week of a facility whose capacity is nonzero and below the weekly
\* static leak and below the drawn injected mass: the upper clamp cut the
\* injection, after an inactive week in which the leak emptied the store.
C1_Witness ==
    /\ JustRan
    /\ week_locals.is_active
    /\ 0 < sim.working_capacity_kg
    /\ sim.working_capacity_kg < sim.static_leak_per_week
    /\ sim.working_capacity_kg < week_locals.drawn_injected_kg
    /\ week_locals.net_working_kg > sim.working_capacity_kg
    /\ LastRecord.working_gas_kg = sim.working_capacity_kg
    /\ LastRecord.h2_injected_kg < week_locals.drawn_injected_kg
    /\ \E k \in DOMAIN records :
          ~records[k].is_cycle_active /\ records[k].working_gas_kg = 0

\* C2. Mass balance between consecutive weekly records, with the reported
\* values: working[t] - working[t-1] = injected[t] - withdrawn[t] - losses[t].
C2_MassBalanceEveryStep ==
    \A k \in DOMAIN records :
        k > 1 =>
            records[k].working_gas_kg - records[k - 1].working_gas_kg
                = records[k].h2_injected_kg - records[k].h2_withdrawn_kg
                    - records[k].losses_kg

\* C3. Ramp constraint: a weekly step that runs a second or later cycle moves
\* last_cycle_fraction by at most the ramp limit unless the final re-clip
\* changed the ramped value, and an inactive week leaves last_cycle_fraction
\* as it was.
C3_RampConstraint ==
    [][ (pc = "weekly_loop" /\ pc' # "error") =>
            IF is_active(idx)
            THEN cycle_index >= 1 =>
                    \/ Abs(last_cycle_fraction' - last_cycle_fraction)
                           <= cfg.max_relative_change_per_cycle
                    \/ last_cycle_fraction' # week_locals'.ramped_fraction
            ELSE last_cycle_fraction' = last_cycle_fraction ]_vars

\* A second or later cycle, separated from the previous one by an inactive
\* week, whose drawn target lay further away than the ramp limit.
C3_Witness ==
    /\ JustRan
    /\ week_locals.is_active
    /\ cycle_index >= 2
    /\ Len(records) >= 3
    /\ ~records[Len(records) - 1].is_cycle_active
    /\ Abs(last_cycle_fraction - week_locals.prev_fraction)
           = cfg.max_relative_change_per_cycle
    /\ stream[pos - 5].kind = "target_fraction"
    /\ Abs(stream[pos - 5].val - week_locals.prev_fraction)
           > cfg.max_relative_change_per_cycle

\* The k-th active row of rows carries cycle_index k, every inactive row 0,
\* and the k-th cycle row is the cycle of the k-th active row.
ActiveBefore(rows, k) == Cardinality({j \in 1..k : rows[j].is_cycle_active})

IndexedFromOne(rows, cycles) ==
    /\ \A k \in DOMAIN rows :
          /\ rows[k].is_cycle_active = is_active(rows[k].timestamp)
          /\ rows[k].cycle_index =
                IF rows[k].is_cycle_active THEN ActiveBefore(rows, k) ELSE 0
          /\ rows[k].is_cycle_active =>
                /\ rows[k].cycle_index <= Len(cycles)
                /\ cycles[rows[k].cycle_index].cycle_start = rows[k].timestamp
    /\ \A j \in DOMAIN cycles : cycles[j].cycle_index = j
    /\ Len(cycles) = ActiveBefore(rows, Len(rows))

\* C4. Cycle indexing: in every facility the k-th active week carries
\* cycle_index k in its weekly record and in its cycle record, every inactive
\* week carries 0, and the count restarts with each facility.
C4_CycleIndexing ==
    /\ InWeeklyLoop => IndexedFromOne(records, cycle_records)
    /\ \A f \in DOMAIN ts_frames : IndexedFromOne(ts_frames[f], cycle_frames[f])

\* The second facility runs its first cycle, after an inactive week, when the
\* first facility has run a cycle of its own.
C4_Witness ==
    /\ JustRan
    /\ fac = 2
    /\ \E k \in DOMAIN ts_frames[1] : ts_frames[1][k].cycle_index >= 1
    /\ Len(records) >= 2
    /\ records[1].cycle_index = 0
    /\ LastRecord.cycle_index = 1

RowWithinBounds(r) ==
    check_pressure_within_bounds(r.pressure_mpa,
                                 facility_df[r.facility_id].pressure_min_mpa,
                                 facility_df[r.facility_id].pressure_max_mpa,
                                 cfg.pressure_margin_mpa)

\* C5. Pressure bound: every weekly record has
\* pressure_min_mpa - margin <= pressure_mpa <= pressure_max_mpa + margin of
\* its facility.
C5_PressureBound ==
    /\ InWeeklyLoop => \A k \in DOMAIN records : RowWithinBounds(records[k])
    /\ \A f \in DOMAIN ts_frames :
          \A k \in DOMAIN ts_frames[f] : RowWithinBounds(ts_frames[f][k])

\* One facility whose records sit on the upper bound in one week and on the
\* lower bound in another, both put there by the pressure-noise draw.
C5_Witness ==
    /\ JustRan
    /\ \E k \in DOMAIN records :
          /\ records[k].pressure_mpa
                = facility_df[fac].pressure_max_mpa + cfg.pressure_margin_mpa
          /\ \E d \in Range(stream) :
                /\ d.kind = "pressure_noise" /\ d.fac = fac
                /\ d.week = records[k].timestamp /\ d.val > 0
    /\ \E k \in DOMAIN records :
          /\ records[k].pressure_mpa
                = facility_df[fac].pressure_min_mpa - cfg.pressure_margin_mpa
          /\ \E d \in Range(stream) :
                /\ d.kind = "pressure_noise" /\ d.fac = fac
                /\ d.week = records[k].timestamp /\ d.val < 0

EfficiencyOf(eff, injected, withdrawn) ==
    /\ (eff = NaN) <=> (injected = 0)
    /\ injected # 0 => eff = Ratio(withdrawn, injected)

\* C6. Cycle efficiency: in every weekly record and every cycle record the
\* efficiency is NaN exactly when the reported injected mass is 0, and is
\* reported withdrawn / reported injected otherwise.
C6_CycleEfficiency ==
    /\ \A k \in DOMAIN records :
          EfficiencyOf(records[k].cycle_efficiency, records[k].h2_injected_kg,
                       records[k].h2_withdrawn_kg)
    /\ \A j \in DOMAIN cycle_records :
          EfficiencyOf(cycle_records[j].cycle_efficiency,
                       cycle_records[j].total_injected_kg,
                       cycle_records[j].total_withdrawn_kg)

\* A facility with a cycle whose injected mass is 0 and a cycle of another
\* kind: the withdrawn mass was cut by the clamp and the efficiency is the
\* ratio of the reported masses.
C6_Witness ==
    /\ JustRan
    /\ week_locals.is_active
    /\ LastRecord.h2_injected_kg > 0
    /\ LastRecord.h2_withdrawn_kg > 0
    /\ LastRecord.h2_withdrawn_kg < week_locals.drawn_withdrawn_kg
    /\ LastRecord.cycle_efficiency
          = Ratio(LastRecord.h2_withdrawn_kg, LastRecord.h2_injected_kg)
    /\ cycle_records[Len(cycle_records)].cycle_efficiency = LastRecord.cycle_efficiency

EveryWeekScenario ==
    /\ cfg.n_facilities = 1
    /\ cfg.n_years = 1
    /\ cfg.min_cycles_per_year = WeeksPerYear
    /\ cfg.max_cycles_per_year = WeeksPerYear
    /\ Normalizable(cfg.facility_type_weights)
    /\ Normalizable(cfg.mode_mix)

\* C7. Every week active: one facility, one year, min = max = a year's worth
\* of cycles, any start week.  The finished time series has one row per week
\* with cycle_index 1, 2, ... in order, and the cycle summary has one row per
\* week whose avg_pressure_mpa is the pressure of the one weekly row with the
\* same cycle index.
C7_EveryWeekActive ==
    (EveryWeekScenario /\ pc = "done") =>
        /\ Len(timeseries_df) = WeeksPerYear
        /\ \A k \in DOMAIN timeseries_df : timeseries_df[k].cycle_index = k
        /\ Len(cycle_summary_df) = WeeksPerYear
        /\ \A j \in DOMAIN cycle_summary_df :
              /\ cycle_summary_df[j].cycle_index = j
              /\ \A k \in DOMAIN timeseries_df :
                    timeseries_df[k].cycle_index = j =>
                        cycle_summary_df[j].avg_pressure_mpa
                            = timeseries_df[k].pressure_mpa

\* A finished every-week run whose weeks fall into two calendar years.
C7_Witness ==
    /\ EveryWeekScenario
    /\ pc = "done"
    /\ cfg.start_week > 0
    /\ Cardinality(DOMAIN year_active_indices) = 2
    /\ Len(timeseries_df) = WeeksPerYear
    /\ cycle_summary_df[WeeksPerYear].avg_pressure_mpa
          = timeseries_df[WeeksPerYear].pressure_mpa

AttributeKinds ==
    { "facility_type", "country_code", "region", "latitude", "longitude",
      "depth_m", "porosity", "permeability_mD", "cavern_volume_m3" }

\* 0: a facility-attribute draw, 1: a draw of the activation schedule,
\* 2: a draw of a facility's simulation.
Phase(d) == IF d.kind \in AttributeKinds THEN 0 ELSE IF d.fac = 0 THEN 1 ELSE 2

\* Draw d is not made after draw e.
InOrder(d, e) ==
    /\ Phase(d) <= Phase(e)
    /\ Phase(d) = Phase(e) =>
          \/ d.fac < e.fac
          \/ d.fac = e.fac /\ d.week <= e.week

\* The kinds of the draws made for facility f in week w, in stream order.
KindsAt(f, w) ==
    LET made(d) == d.fac = f /\ d.week = w
        ds == SelectSeq(stream, made)
    IN  [k \in DOMAIN ds |-> ds[k].kind]

CycleKinds ==
    << "mode", "target_fraction", "mix", "loss_fraction", "inlet_purity",
       "outlet_purity_noise" >>

WeekKinds(with_temperature, active) ==
    (IF with_temperature THEN << "temperature" >> ELSE << >>)
        \o (IF active THEN CycleKinds ELSE << >>)
        \o << "pressure_noise" >>

\* Every weekly row written so far, of the facility being simulated and of
\* those before it.
RowsSoFar ==
    Range(Flatten(ts_frames))
        \cup (IF pc \in {"weekly_loop", "aggregate", "error"}
              THEN Range(records) ELSE {})

\* InOrder is transitive, so neighbours in order means all in order.
DrawsInProgramOrder ==
    \A i \in 1..(Len(stream) - 1) : InOrder(stream[i], stream[i + 1])

\* C8 as stated: attribute draws first in facility order, then facility by
\* facility, week by week, and in every week a temperature draw, then the six
\* cycle draws if the week is active, then the pressure-noise draw.
C8_DrawOrderAsStated ==
    /\ DrawsInProgramOrder
    /\ \A r \in RowsSoFar :
          KindsAt(r.facility_id, r.timestamp) = WeekKinds(TRUE, r.is_cycle_active)

\* C8, amended: the same order, the temperature draw of a week being made
\* only when the configured temperature-noise distribution is "normal".
C8_DrawOrder ==
    /\ DrawsInProgramOrder
    /\ \A r \in RowsSoFar :
          KindsAt(r.facility_id, r.timestamp)
              = WeekKinds(cfg.temperature_noise_c.distribution = "normal",
                          r.is_cycle_active)

\* A finished run of two facilities without temperature noise, with an
\* active and an inactive week: the second facility's weeks drew the cycle
\* draws and the pressure noise only.
C8_Witness ==
    /\ pc = "done"
    /\ run = 1
    /\ cfg.n_facilities = 2
    /\ cfg.temperature_noise_c.distribution # "normal"
    /\ \E r, q \in Range(ts_frames[2]) :
          /\ r.is_cycle_active
          /\ ~q.is_cycle_active
          /\ KindsAt(2, r.timestamp) = CycleKinds \o << "pressure_noise" >>
          /\ KindsAt(2, q.timestamp) = << "pressure_noise" >>

IsPrefix(a, b) == Len(a) <= Len(b) /\ a = SubSeq(b, 1, Len(a))

\* C9. Determinism: a second run with the same configuration and the same
\* seed writes, row by row, what the first run wrote, and ends with the same
\* facility metadata, weekly time series and cycle summary.
C9_Determinism ==
    run = 2 =>
        /\ IsPrefix(facility_df, first_run.facility_df)
        /\ IsPrefix(Flatten(ts_frames)
                        \o (IF InWeeklyLoop THEN records ELSE << >>),
                    first_run.timeseries_df)
        /\ IsPrefix(Flatten(cycle_frames), first_run.cycle_summary_df)
        /\ pc # "error"
        /\ pc = "done" =>
              /\ facility_df = first_run.facility_df
              /\ timeseries_df = first_run.timeseries_df
              /\ cycle_summary_df = first_run.cycle_summary_df
              /\ pos = Len(stream)

\* A second run has finished; the first drew a porous reservoir and a
\* non-zero pressure noise and ran a cycle.
C9_Witness ==
    /\ run = 2
    /\ pc = "done"
    /\ timeseries_df = first_run.timeseries_df
    /\ cycle_summary_df # << >>
    /\ \E k \in DOMAIN facility_df : facility_df[k].facility_type = "porous_reservoir"
    /\ \E d \in Range(stream) : d.kind = "pressure_noise" /\ d.val # 0

Malformed ==
    \/ ~Normalizable(cfg.facility_type_weights)
    \/ ~Normalizable(cfg.mode_mix)

\* C10. Configuration errors are fatal before any simulation step: with a
\* weight vector that cannot be normalised, no weekly step runs and no weekly
\* record is ever written, the run never completes, and the error is raised
\* outside the weekly loop.
C10_ConfigErrorsBeforeSimulation ==
    Malformed =>
        /\ records = << >>
        /\ ts_frames = << >>
        /\ cycle_index = 0
        /\ pc # "done"
        /\ pc = "error" => error # "weekly_step"

Returned(fn) == eos.pc = "returned" /\ eos.fn = fn

Segments == cfg.thermo.compressibility_segments

InSegment(p, k) ==
    Segments[k].pressure_min_mpa <= p /\ p < Segments[k].pressure_max_mpa

Covered(p) == \E k \in DOMAIN Segments : InSegment(p, k)

\* The stepwise call returns what the operator computes.
StepwiseAgrees ==
    Returned("pressure_from_mass") =>
        eos.result = pressure_from_mass(eos.mass_kg, eos.temperature_c,
                                        eos.volume_m3, cfg.thermo)

\* C11. EoS round trip: for every pressure P covered by the table, every
\* temperature and every volume > 0, pressure_from_mass(mass_from_pvt(P, T,
\* V), T, V) is P within a small tolerance (1 % and one step of the pressure
\* grid) after the 5 iterations.
C11_RoundTrip ==
    ( /\ Returned("pressure_from_mass")
      /\ eos.round_trip
      /\ eos.volume_m3 > 0
      /\ Covered(eos.pressure_mpa) ) =>
        Abs(eos.result - eos.pressure_mpa) * 100 <= eos.pressure_mpa + 100

\* The Z that the table gives for pressure p: that of the first segment, in
\* table order, with pressure_min <= p < pressure_max, and that of the last
\* segment when no segment holds p.
TableZ(p, zval) ==
    \/ \E k \in DOMAIN Segments :
          /\ InSegment(p, k)
          /\ \A j \in 1..(k - 1) : ~InSegment(p, j)
          /\ zval = Segments[k].Z
    \/ ~Covered(p) /\ zval = Segments[Len(Segments)].Z

\* C12. get_compressibility_z is a function of the pressure and the table
\* alone: whatever was called before, a pressure inside a segment yields the
\* Z of the first such segment, a pressure outside every segment (above or
\* below) yields the last segment's Z, and a call that repeats the pressure
\* of the call before it yields the same Z.
C12_CompressibilityPure ==
    Returned("get_compressibility_z") =>
        /\ TableZ(eos.pressure_mpa, eos.result)
        /\ (eos.has_prev /\ eos.prev_pressure = eos.pressure_mpa) =>
              eos.result = eos.prev_z

\* A pressure below the lowest boundary of the table yields the last
\* segment's Z, right after a call in the overlap of two segments yielded the
\* first segment's different Z.
C12_Witness ==
    /\ Returned("get_compressibility_z")
    /\ eos.has_prev
    /\ \A k \in DOMAIN Segments : eos.pressure_mpa < Segments[k].pressure_min_mpa
    /\ eos.result = Segments[Len(Segments)].Z
    /\ InSegment(eos.prev_pressure, 1) /\ InSegment(eos.prev_pressure, 2)
    /\ eos.prev_z = Segments[1].Z
    /\ eos.prev_z # eos.result

\* C13. Degenerate inputs return 0 and raise nothing: mass_from_pvt with
\* volume <= 0 returns 0 for any pressure and temperature; pressure_from_mass
\* with volume <= 0 or mass <= 0 returns 0 and never enters its fixed-point
\* loop.
C13_DegenerateSentinels ==
    /\ (Returned("mass_from_pvt") /\ eos.volume_m3 <= 0) => eos.result = 0
    /\ (eos.fn = "pressure_from_mass"
           /\ (eos.volume_m3 <= 0 \/ eos.mass_kg <= 0)) =>
          /\ eos.pc = "returned"
          /\ eos.iterations = 0
          /\ eos.result = 0
    /\ eos.pc \in {"idle", "loop", "returned"}

\* pressure_from_mass has returned 0 for a positive volume and a mass <= 0,
\* without an iteration.
C13_Witness ==
    /\ Returned("pressure_from_mass")
    /\ eos.volume_m3 > 0
    /\ eos.mass_kg < 0
    /\ eos.iterations = 0
    /\ eos.result = 0

\* C14. Asymmetric clamping: on an active week whose net update is below 0
\* the withdrawn mass is cut by min(deficit, withdrawn), working gas is 0 and
\* the injected mass is as drawn; when the net update is above the capacity
\* the injected mass is cut by min(excess, injected), working gas is the
\* capacity and the withdrawn mass is as drawn; never are both adjusted.
C14_AsymmetricClamping ==
    (JustRan /\ week_locals.is_active) =>
        LET net == week_locals.net_working_kg
            inj == week_locals.drawn_injected_kg
            wd == week_locals.drawn_withdrawn_kg
            cap == sim.working_capacity_kg
        IN  /\ net < 0 =>
                  /\ LastRecord.h2_withdrawn_kg = wd - Min(-net, wd)
                  /\ LastRecord.working_gas_kg = 0
                  /\ LastRecord.h2_injected_kg = inj
            /\ net > cap =>
                  /\ LastRecord.h2_injected_kg = inj - Min(net - cap, inj)
                  /\ LastRecord.working_gas_kg = cap
                  /\ LastRecord.h2_withdrawn_kg = wd
            /\ ~(LastRecord.h2_injected_kg # inj /\ LastRecord.h2_withdrawn_kg # wd)

\* A deficit larger than the withdrawn mass: the withdrawal was cut to 0, the
\* injection stayed as drawn.
C14_Witness ==
    /\ JustRan
    /\ week_locals.is_active
    /\ week_locals.net_working_kg < 0
    /\ week_locals.drawn_withdrawn_kg > 0
    /\ -week_locals.net_working_kg > week_locals.drawn_withdrawn_kg
    /\ LastRecord.h2_withdrawn_kg = 0
    /\ LastRecord.h2_injected_kg = week_locals.drawn_injected_kg
    /\ LastRecord.h2_injected_kg > 0

\* The kinds of the draws made by the step, in order.
DrawnKinds ==
    [k \in 1..(pos' - pos) |-> stream'[pos + k].kind]

\* C15. Inactive week: a week outside the activation schedule makes no draw
\* but the temperature draw (made when the temperature noise is normal) and
\* the pressure-noise draw, leaves last_cycle_fraction and cycle_index as
\* they were, appends no cycle record, sets working gas to
\* max(working gas - weekly static leak, 0) and appends a weekly record with
\* injected 0, withdrawn 0, losses = weekly static leak, efficiency NaN and
\* cycle_index 0.
C15_InactiveWeek ==
    [][ (pc = "weekly_loop" /\ ~is_active(idx)) =>
            /\ DrawnKinds = WeekKinds(cfg.temperature_noise_c.distribution = "normal",
                                      FALSE)
            /\ \A k \in DOMAIN DrawnKinds :
                  DrawnKinds[k] \in {"temperature", "pressure_noise"}
            /\ last_cycle_fraction' = last_cycle_fraction
            /\ cycle_index' = cycle_index
            /\ cycle_records' = cycle_records
            /\ working_gas_kg' = Max(working_gas_kg - sim.static_leak_per_week, 0)
            /\ Len(records') = Len(records) + 1
            /\ SubSeq(records', 1, Len(records)) = records
            /\ LET r == records'[Len(records')]
               IN  /\ r.timestamp = idx
                   /\ r.working_gas_kg = working_gas_kg'
                   /\ r.h2_injected_kg = 0
                   /\ r.h2_withdrawn_kg = 0
                   /\ r.losses_kg = sim.static_leak_per_week
                   /\ r.cycle_efficiency = NaN
                   /\ r.cycle_index = 0 ]_vars

\* An inactive week after a cycle: the counter stands at 1 or more, the row
\* carries 0, the leak is positive and larger than what was left in store.
C15_Witness ==
    /\ JustRan
    /\ ~week_locals.is_active
    /\ cycle_index >= 1
    /\ LastRecord.cycle_index = 0
    /\ sim.static_leak_per_week > 0
    /\ week_locals.prev_working > 0
    /\ week_locals.prev_working < sim.static_leak_per_week
    /\ LastRecord.working_gas_kg = 0
    /\ LastRecord.losses_kg = sim.static_leak_per_week

\* The weekly rows of rows that carry the nonzero cycle index c.
RowsOfCycle(rows, c) == {k \in DOMAIN rows : c # 0 /\ rows[k].cycle_index = c}

Aggregated(rows, cycles) ==
    /\ Len(cycles) = Cardinality({k \in DOMAIN rows : rows[k].is_cycle_active})
    /\ \A j \in DOMAIN cycles :
          /\ cycles[j].avg_pressure_mpa # NaN
          /\ Cardinality(RowsOfCycle(rows, cycles[j].cycle_index)) = 1
          /\ \A k \in RowsOfCycle(rows, cycles[j].cycle_index) :
                /\ rows[k].is_cycle_active
                /\ rows[k].facility_id = cycles[j].facility_id
                /\ cycles[j].avg_pressure_mpa = rows[k].pressure_mpa
    /\ \A i, j \in DOMAIN cycles :
          cycles[i].cycle_index = cycles[j].cycle_index => i = j

\* C16. Aggregation: once a facility's weekly loop has completed, its cycle
\* summary has one row per active week, and each row's avg_pressure_mpa is
\* the mean of pressure_mpa over the facility's weekly rows with the same
\* nonzero cycle index, which is the pressure of exactly one row; no row is
\* left unfilled and rows with cycle index 0 do not contribute.
C16_Aggregation ==
    /\ Len(cycle_frames) = Len(ts_frames)
    /\ \A f \in DOMAIN ts_frames : Aggregated(ts_frames[f], cycle_frames[f])

\* A facility with an inactive week and two cycles, all three at different
\* pressures.
C16_Witness ==
    /\ ts_frames # << >>
    /\ Len(cycle_frames[1]) >= 2
    /\ cycle_frames[1][1].avg_pressure_mpa # cycle_frames[1][2].avg_pressure_mpa
    /\ \E k \in DOMAIN ts_frames[1] :
          /\ ~ts_frames[1][k].is_cycle_active
          /\ ts_frames[1][k].pressure_mpa # cycle_frames[1][1].avg_pressure_mpa
          /\ ts_frames[1][k].pressure_mpa # cycle_frames[1][2].avg_pressure_mpa

\* C17. The ramp exception is confined to the first cycle: with cap_min_frac
\* <= cap_max_frac the fraction applied by an active week lies in
\* [cap_min_frac, cap_max_frac], and from the second cycle of a facility on
\* the final re-clip leaves the ramped value as it is and the fraction moves
\* by at most the ramp limit.
C17_RampExceptionFirstCycleOnly ==
    [][ ( /\ pc = "weekly_loop"
          /\ pc' # "error"
          /\ is_active(idx)
          /\ cfg.cycle_mass_fraction_of_capacity.min
                <= cfg.cycle_mass_fraction_of_capacity.max ) =>
            /\ cfg.cycle_mass_fraction_of_capacity.min <= last_cycle_fraction'
            /\ last_cycle_fraction' <= cfg.cycle_mass_fraction_of_capacity.max
            /\ cycle_index >= 1 =>
                  /\ last_cycle_fraction' = week_locals'.ramped_fraction
                  /\ Abs(last_cycle_fraction' - last_cycle_fraction)
                         <= cfg.max_relative_change_per_cycle ]_vars

\* A second cycle under a window whose lower end lies further above the
\* initial fraction than the ramp limit, so that the first cycle was moved
\* by more than the limit: the second moved by the limit, the drawn target
\* lying further away, and was not re-clipped.
C17_Witness ==
    /\ JustRan
    /\ week_locals.is_active
    /\ cycle_index = 2
    /\ cfg.cycle_mass_fraction_of_capacity.min - InitialCycleFraction
          > cfg.max_relative_change_per_cycle
    /\ week_locals.prev_fraction = cfg.cycle_mass_fraction_of_capacity.min
    /\ last_cycle_fraction = week_locals.ramped_fraction
    /\ last_cycle_fraction - week_locals.prev_fraction
          = cfg.max_relative_change_per_cycle
    /\ last_cycle_fraction < cfg.cycle_mass_fraction_of_capacity.max

\* The zero clamp fired and the deficit was larger than the withdrawn mass.
DeficitBeyondWithdrawn ==
    /\ week_locals.net_working_kg < 0
    /\ -week_locals.net_working_kg > week_locals.drawn_withdrawn_kg

\* In exact arithmetic the residual of an active week is 0 unless the deficit
\* exceeds the withdrawn mass, the excess over capacity never exceeds the
\* injected mass, and the weekly record is what the clamps yield, whatever
\* the residual.
ResidualInExactArithmetic ==
    (JustRan /\ week_locals.is_active) =>
        /\ ~DeficitBeyondWithdrawn => week_locals.residual = 0
        /\ week_locals.net_working_kg > sim.working_capacity_kg =>
              week_locals.net_working_kg - sim.working_capacity_kg
                  <= week_locals.drawn_injected_kg
        /\ LET clamped == clamp_inventory(week_locals.net_working_kg,
                                          week_locals.drawn_injected_kg,
                                          week_locals.drawn_withdrawn_kg,
                                          sim.working_capacity_kg)
           IN  /\ LastRecord.working_gas_kg = clamped.working_gas_kg
               /\ LastRecord.h2_injected_kg = clamped.h2_injected_kg
               /\ LastRecord.h2_withdrawn_kg = clamped.h2_withdrawn_kg
               /\ LastRecord.losses_kg
                     = week_locals.dynamic_losses_kg + sim.static_leak_per_week
               /\ working_gas_kg = clamped.working_gas_kg

\* Sum of the magnitudes that enter the week's arithmetic; every intermediate
\* value is at most this large.
RoundedMagnitude ==
    fp.prev_working + fp.drawn_injected_kg + fp.drawn_withdrawn_kg
        + fp.dynamic_losses_kg + fp.static_losses_kg

\* The week's record fields are those the clamps yield from the net update.
RoundedRecordFromClamps ==
    LET clamped ==
            clamp_inventory_rounded(
                net_update_rounded(fp.prev_working, fp.drawn_injected_kg,
                                   fp.drawn_withdrawn_kg, fp.dynamic_losses_kg,
                                   fp.static_losses_kg),
                fp.drawn_injected_kg, fp.drawn_withdrawn_kg, fp.capacity)
    IN  /\ fp.working_gas_kg = clamped.working_gas_kg
        /\ fp.h2_injected_kg = clamped.h2_injected_kg
        /\ fp.h2_withdrawn_kg = clamped.h2_withdrawn_kg
        /\ fp.clamp = clamped.clamp

\* C18 as stated.  Diagnostic residual of an active week, with static leak
\* >= 0 and loss fraction in [0, 1]: it is exactly 0 when no clamp fires,
\* when the capacity clamp fires and when the zero clamp fires with deficit
\* <= withdrawn; it is nonzero only when the deficit exceeds the withdrawn
\* mass.
C18_ResidualExactlyZero ==
    (fp.pc = "week_done" /\ fp.clamp # "zero_beyond") => fp.numerator = 0

\* C18. Diagnostic residual of an active week, with static leak >= 0 and loss
\* fraction in [0, 1]: when no clamp fires, when the capacity clamp fires and
\* when the zero clamp fires with deficit <= withdrawn, the residual is 0 up
\* to the rounding of the week's ten float operations, each at most half a
\* unit in the last place of the magnitudes involved; it exceeds that only
\* when the deficit exceeds the withdrawn mass; and the week's inventory and
\* flows are what the clamps yield, whatever the residual.
C18_DiagnosticResidual ==
    fp.pc = "week_done" =>
        /\ fp.clamp # "zero_beyond" => fp.numerator <= 5 * Ulp(RoundedMagnitude)
        /\ fp.numerator > 5 * Ulp(RoundedMagnitude) => fp.clamp = "zero_beyond"
        /\ RoundedRecordFromClamps

\* No clamp fired, under a positive static leak and a positive dynamic loss,
\* and the rounded residual is not 0 although the exact one is.
C18_Witness ==
    /\ fp.pc = "week_done"
    /\ fp.clamp = "none"
    /\ fp.static_losses_kg > 0
    /\ fp.dynamic_losses_kg > 0
    /\ fp.h2_injected_kg > 0
    /\ fp.h2_withdrawn_kg > 0
    /\ fp.numerator > 0
    /\ fp.numerator <= 5 * Ulp(RoundedMagnitude)
    /\ fp.prev_working + fp.drawn_injected_kg - fp.drawn_withdrawn_kg
          - fp.dynamic_losses_kg - fp.static_losses_kg
          \in 0..fp.capacity
    /\ fp.dynamic_losses_kg <= fp.prev_working

\* The weeks the run's schedule marks active.
ScheduledWeeks == UNION {year_active_indices[y] : y \in DOMAIN year_active_indices}

\* The activity columns of a run of weekly rows: timestamp, flag, cycle index.
ActivityOf(rows) ==
    [k \in DOMAIN rows |->
        << rows[k].timestamp, rows[k].is_cycle_active, rows[k].cycle_index >>]

\* The rows follow the schedule: a row is active exactly in a scheduled week.
FollowsSchedule(rows) ==
    \A k \in DOMAIN rows :
        rows[k].is_cycle_active <=> rows[k].timestamp \in ScheduledWeeks

\* The schedule is complete once the first facility is set up, and is drawn
\* by exactly one draw of active weeks per year of the run.
DrawnOnceBeforeSimulation ==
    pc \notin {"create_facilities", "assign_cycles", "error"} =>
        /\ DOMAIN year_active_indices = Years
        /\ Cardinality({k \in 1..Len(stream) :
                            stream[k].kind = "active_weeks"}) = Cardinality(Years)
        /\ \A k, l \in 1..Len(stream) :
              (stream[k].kind = "active_weeks" /\ stream[l].fac >= 1
                  /\ stream[l].week >= 0) => k < l

\* All the facilities simulated so far, and the one being simulated, are
\* active in the same weeks with the same cycle indices and the same number
\* of cycles.
SameSchedule ==
    /\ \A f \in DOMAIN ts_frames :
          /\ FollowsSchedule(ts_frames[f])
          /\ ActivityOf(ts_frames[f]) = ActivityOf(ts_frames[1])
          /\ Len(cycle_frames[f]) = Len(cycle_frames[1])
          /\ Len(cycle_frames[f]) = Cardinality(ScheduledWeeks)
          /\ \A c \in DOMAIN cycle_frames[f] :
                /\ cycle_frames[f][c].cycle_index = cycle_frames[1][c].cycle_index
                /\ cycle_frames[f][c].cycle_start = cycle_frames[1][c].cycle_start
    /\ pc \in {"weekly_loop", "aggregate"} =>
          /\ FollowsSchedule(records)
          /\ ts_frames # << >> =>
                \A k \in DOMAIN records :
                    ActivityOf(records)[k] = ActivityOf(ts_frames[1])[k]

\* C19. Shared activation schedule: the set of active weeks is drawn once per
\* run, before any facility is simulated, and is never modified afterwards,
\* so every facility of a run is active in exactly the same weeks, has the
\* same number of cycles and assigns the same cycle index to the same
\* timestamp.
C19_SharedActivationSchedule ==
    [][ /\ pc \notin {"create_facilities", "assign_cycles"} =>
              year_active_indices' = year_active_indices
        /\ DrawnOnceBeforeSimulation'
        /\ SameSchedule' ]_vars

\* Two facilities have been simulated, each with an inactive week and two
\* cycles, and the second cycle of both falls in the same week.
C19_Witness ==
    /\ pc = "done"
    /\ Len(ts_frames) = 2
    /\ Len(cycle_frames[2]) >= 2
    /\ \E k \in DOMAIN ts_frames[2] : ~ts_frames[2][k].is_cycle_active
    /\ \E k \in DOMAIN ts_frames[2] :
          /\ ts_frames[2][k].is_cycle_active
          /\ ts_frames[2][k].cycle_index = 2
          /\ ts_frames[1][k].cycle_index = 2
====
